---- MODULE Spec2Model ----
(***************************************************************************)
(* Model of the GraphQL operation printer: the field filter isValidField   *)
(* (packages/plugin-common/src/field.ts) and the recursive printer         *)
(* printOperationBody / printOperationFields / printFieldOperation /       *)
(* printOperations (operation.ts).                                         *)
(*                                                                         *)
(* Strings are sequences of tokens; a JavaScript value is a record         *)
(* [k, s]: k = "undefined", k = "string" with its tokens s, k = "true" or  *)
(* "false", or k = "RangeError" for a call whose recursion never returns    *)
(* (the engine ends it with "Maximum call stack size exceeded").           *)
(* An optional value (x | undefined) is <<>> when absent and <<x>> when    *)
(* present.                                                                *)
(***************************************************************************)
EXTENDS Integers, Sequences, FiniteSets, TLC

VARIABLES context, call, stack, pc, result

vars == <<context, call, stack, pc, result>>

(* ---------------------------------------------------------------- bounds *)

\* The largest number of fields of a drawn schema, all object types together.
MaxFields == 3

\* The largest number of directives of a field drawn for isValidField.
MaxDirectives == 2

(* ---------------------------------------------------------------- values *)

Undefined == [k |-> "undefined", s |-> <<>>]
Str(s) == [k |-> "string", s |-> s]
Bool(b) == [k |-> IF b THEN "true" ELSE "false", s |-> <<>>]
RangeError == [k |-> "RangeError", s |-> <<>>]

\* JavaScript truthiness of a printed value: undefined and "" are falsy.
Truthy(v) == v.k = "string" /\ v.s # <<>>

Absent == <<>>
Some(x) == <<x>>

OperationQuery == "query"
OperationMutation == "mutation"
OperationTypes == {OperationQuery, OperationMutation}

(* ------------------------------------------------------- @linear/common *)

getLast(fields) == IF fields = <<>> THEN Absent ELSE Some(fields[Len(fields)])

RECURSIVE Join(_, _)
Join(strs, sep) ==
  IF strs = <<>> THEN <<>>
  ELSE IF Len(strs) = 1 THEN strs[1]
  ELSE strs[1] \o <<sep>> \o Join(Tail(strs), sep)

\* filterJoin(a, sep): drop the falsy entries, join the rest.
filterJoin(a, sep) ==
  LET kept == SelectSeq(a, Truthy)
  IN Str(Join([i \in 1..Len(kept) |-> kept[i].s], sep))

(* ------------------------------------------------------------- field.ts *)

\* A type node is the sequence of its wrappers ("NonNull", "List") ending
\* in the named type; the type name is found by unwrapping.
RECURSIVE getTypeName(_)
getTypeName(type) == IF Len(type) = 1 THEN type[1] ELSE getTypeName(Tail(type))

isScalarField(scalars, node) == getTypeName(node.type) \in scalars

\* config.skipX?.includes(v): undefined (falsy) when the list is absent.
OptIncludes(list, v) == list # Absent /\ v \in list[1]

\* field.directives?.find(d => ...): the first match, or absent.
FindSkipDirective(cfg, field) ==
  IF field.directives = Absent THEN Absent
  ELSE LET ds == field.directives[1]
           hits == {i \in 1..Len(ds) : OptIncludes(cfg.skipDirectives, ds[i])}
       IN IF hits = {} THEN Absent
          ELSE Some(ds[CHOOSE i \in hits : \A j \in hits : i <= j])

isValidFieldNoEdges(ctx, field) ==
  IF field # Absent
  THEN LET skipFieldName == OptIncludes(ctx.config.skipFields, field[1].name)
           skipDirective == FindSkipDirective(ctx.config, field[1])
       IN (skipDirective = Absent) /\ ~skipFieldName
  ELSE FALSE

isValidField(ctx, field) ==
  IF field # Absent /\ field[1].name # "edges"
  THEN LET skipFieldName == OptIncludes(ctx.config.skipFields, field[1].name)
           skipDirective == FindSkipDirective(ctx.config, field[1])
       IN (skipDirective = Absent) /\ ~skipFieldName
  ELSE FALSE

(* ------------------------------------- fragment.ts, object.ts, query.ts *)

\* The fragment of the field's type, if the schema has one.
findFragment(fragments, field) ==
  IF getTypeName(field.type) \in fragments
  THEN Some(getTypeName(field.type)) ELSE Absent

\* The spread of a fragment.
printOperationFragment(fragment) == Str(<<"...", fragment>>)

\* The object type definition (its list of fields) named by the field's type.
findObject(objects, field) ==
  IF getTypeName(field.type) \in DOMAIN objects
  THEN Some(objects[getTypeName(field.type)]) ELSE Absent

\* The root query that returns the field's type, if any.
findQuery(queries, field) ==
  IF getTypeName(field.type) \in queries
  THEN Some(getTypeName(field.type)) ELSE Absent

\* The modelled fields take no arguments.
printInputArgs(fields) == <<>>
printResponseArgs(field) == <<>>

(* --------------------------------------------------------- operation.ts *)

\* The modelled nodes carry no description.
printDescription(node) == Undefined

\* fields.slice().reverse().reduce(...): from the last field outwards,
\* acc starting as "".
RECURSIVE WrapReduce(_, _, _, _)
WrapReduce(fields, i, acc, body) ==
  IF i = 0 THEN acc
  ELSE WrapReduce(fields, i - 1,
         <<fields[i].name>> \o printResponseArgs(fields[i]) \o <<"{">>
           \o (IF acc = <<>> THEN body ELSE acc) \o <<"}">>,
         body)

printOperationWrapper(ctx, type, fields, body) ==
  LET lastField == getLast(fields)
  IN IF isValidField(ctx, lastField)
     THEN LET operationName ==
                filterJoin([i \in 1..Len(fields) |-> Str(<<fields[i].name>>)], "_")
          IN filterJoin(
               << printDescription(lastField[1]),
                  Str(<<type>> \o operationName.s \o printInputArgs(fields) \o <<"{">>),
                  Str(WrapReduce(fields, Len(fields), <<>>, body)),
                  Str(<<"}">>) >>,
               "\n")
     ELSE Str(<<>>)

\* printOperationBody and printOperationFields call each other.  `active`
\* is the set of fields whose body is being printed further up the call
\* chain: both functions read only the last field of the path, so a call
\* for a field that is already active repeats its caller's computation and
\* never returns.
RECURSIVE printOperationBodyIn(_, _, _)
RECURSIVE printOperationFieldsIn(_, _, _, _)

printOperationFieldsIn(ctx, fields, object, active) ==
  LET lastField == getLast(fields)
      entry(field) ==
        IF isValidField(ctx, Some(field))
        THEN LET operation == printOperationBodyIn(ctx, <<field>>, active)
             IN IF operation = RangeError THEN RangeError
                ELSE IF Truthy(operation)
                THEN filterJoin(
                       << printDescription(field),
                          Str(<<field.name, "{">> \o operation.s \o <<"}">>) >>,
                       "\n")
                ELSE Str(<<field.name>>)
        ELSE Undefined
      parts == [i \in 1..Len(object) |-> entry(object[i])]
  IN IF isValidField(ctx, lastField)
     THEN IF \E i \in 1..Len(object) : parts[i] = RangeError
          THEN RangeError
          ELSE filterJoin(parts, "\n")
     ELSE Str(<<>>)

printOperationBodyObjectFirst(ctx, fields, active) ==
  LET lastField == getLast(fields)
  IN IF isValidField(ctx, lastField)
     THEN LET fragment == findFragment(ctx.fragments, lastField[1])
              object == findObject(ctx.objects, lastField[1])
          IN IF object # Absent
             THEN IF lastField[1] \in active THEN RangeError
                  ELSE printOperationFieldsIn(ctx, fields, object[1],
                                              active \cup {lastField[1]})
             ELSE IF fragment # Absent
             THEN printOperationFragment(fragment[1])
             ELSE Undefined
     ELSE Undefined

printOperationBodyIn(ctx, fields, active) ==
  LET lastField == getLast(fields)
  IN IF isValidField(ctx, lastField)
     THEN LET fragment == findFragment(ctx.fragments, lastField[1])
              object == findObject(ctx.objects, lastField[1])
          IN IF fragment # Absent
             THEN printOperationFragment(fragment[1])
             ELSE IF object # Absent
             THEN IF lastField[1] \in active THEN RangeError
                  ELSE printOperationFieldsIn(ctx, fields, object[1],
                                              active \cup {lastField[1]})
             ELSE Undefined
     ELSE Undefined

printOperationBody(ctx, fields) == printOperationBodyIn(ctx, fields, {})

printFieldOperationAnyString(ctx, type, fields) ==
  LET body == printOperationBody(ctx, fields)
  IN IF body = RangeError THEN RangeError
     ELSE IF body.k = "string" THEN printOperationWrapper(ctx, type, fields, body.s)
     ELSE Undefined

printFieldOperation(ctx, type, fields) ==
  LET body == printOperationBody(ctx, fields)
  IN IF body = RangeError THEN RangeError
     ELSE IF Truthy(body) THEN printOperationWrapper(ctx, type, fields, body.s)
     ELSE Undefined

\* type === OperationType.query: only queries nest.
NestsAnyType(type) == TRUE

NestsFields(type) == type = OperationQuery

\* Lines 144-153: the child field gets no nested query of its own.
SkipsNestedNoParentTypes(ctx, fields, childField) ==
  \/ isScalarField(ctx.scalars, childField)
  \/ childField.name \in {"pageInfo", "nodes"}
  \/ findQuery(ctx.queries, childField) # Absent

SkipsNested(ctx, fields, childField) ==
  \/ isScalarField(ctx.scalars, childField)
  \/ getTypeName(childField.type)
       \in {getTypeName(fields[i].type) : i \in 1..Len(fields)}
  \/ childField.name \in {"pageInfo", "nodes"}
  \/ findQuery(ctx.queries, childField) # Absent

\* (object?.fields ?? []) of the path's last field.
ChildFields(ctx, fields) ==
  LET object == findObject(ctx.objects, fields[Len(fields)])
  IN IF object = Absent THEN <<>> ELSE object[1]

\* The entry of printOperations, up to the loop over the child fields:
\* either the call returns at once (or never returns from printing the
\* body), or it starts the loop with a frame of its locals.
EnterOperations(ctx, type, fields) ==
  LET lastField == getLast(fields)
  IN IF isValidField(ctx, lastField)
     THEN LET nodeOperation == printFieldOperation(ctx, type, fields)
          IN IF nodeOperation = RangeError
             THEN [kind |-> "return", val |-> RangeError]
             ELSE IF NestsFields(type)
             THEN [kind |-> "frame",
                   val |-> [fields |-> fields, nodeOperation |-> nodeOperation,
                            i |-> 1, fieldOperations |-> <<>>]]
             ELSE [kind |-> "return", val |-> nodeOperation]
     ELSE [kind |-> "return", val |-> Undefined]

\* The value a finished frame returns (line 162).
FrameValue(frame) ==
  filterJoin(<<frame.nodeOperation>> \o frame.fieldOperations, "\n")

(* --------------------------------------------------------------- inputs *)

NamedType(n) == <<n>>
NonNull(t) == <<"NonNull">> \o t
ListOf(t) == <<"List">> \o t

Field(n, t, d) == [name |-> n, type |-> t, directives |-> d]

\* The fields a drawn object type chooses from, in schema order.
FieldPool ==
  << Field("a", NonNull(NamedType("A")), Absent),
     Field("b", NamedType("B"), Some(<<>>)),
     Field("s", NonNull(NamedType("S")), Absent),
     Field("e", NamedType("E"), Some(<<"internal">>)),
     Field("edges", NonNull(ListOf(NonNull(NamedType("B")))), Absent),
     Field("nodes", NonNull(ListOf(NonNull(NamedType("B")))), Absent),
     Field("pageInfo", NonNull(NamedType("A")), Absent) >>

ObjectNames == {"A", "B"}
ScalarNames == {"S"}

PoolIndex == 1..Len(FieldPool)

\* The fields of the pool with an index in S, in pool order.
RECURSIVE Pick(_, _)
Pick(S, i) ==
  IF i > Len(FieldPool) THEN <<>>
  ELSE (IF i \in S THEN <<FieldPool[i]>> ELSE <<>>) \o Pick(S, i + 1)

FieldLists == {Pick(S, 1) : S \in {T \in SUBSET PoolIndex : Cardinality(T) <= MaxFields}}

\* The object types of a schema: every object name with its list of fields.
RECURSIVE CountFields(_, _)
CountFields(objects, names) ==
  IF names = {} THEN 0
  ELSE LET n == CHOOSE x \in names : TRUE
       IN Len(objects[n]) + CountFields(objects, names \ {n})

Schemas ==
  {o \in [ObjectNames -> FieldLists] : CountFields(o, ObjectNames) <= MaxFields}

NoSkipConfig == [skipFields |-> Absent, skipDirectives |-> Absent]
SkipConfig == [skipFields |-> Some({"s"}), skipDirectives |-> Some({"internal"})]

Contexts ==
  [ config : {NoSkipConfig, SkipConfig},
    objects : Schemas,
    fragments : SUBSET ObjectNames,
    scalars : {ScalarNames},
    queries : {{}, {"B"}} ]

\* The paths a top-level call is made with: none, or one root field.
RootPaths == {<<>>} \cup {<<FieldPool[i]>> : i \in {1, 2, 5}}

Pending == [k |-> "pending", s |-> <<>>]
NoCall == [fn |-> "none", type |-> "", fields |-> <<>>]

(* -------------------------------------------------------------- actions *)

Init ==
  /\ context \in Contexts
  /\ call = NoCall
  /\ stack = <<>>
  /\ pc = "idle"
  /\ result = Pending

Finish(val) ==
  /\ result' = val
  /\ pc' = IF val = RangeError THEN "threw" ELSE "done"
  /\ stack' = <<>>

\* printOperationBody(context, fields)
CallPrintOperationBody(fields) ==
  /\ pc = "idle"
  /\ call' = [fn |-> "printOperationBody", type |-> "", fields |-> fields]
  /\ Finish(printOperationBody(context, fields))
  /\ UNCHANGED context

\* printFieldOperation(context, type, fields)
CallPrintFieldOperation(type, fields) ==
  /\ pc = "idle"
  /\ call' = [fn |-> "printFieldOperation", type |-> type, fields |-> fields]
  /\ Finish(printFieldOperation(context, type, fields))
  /\ UNCHANGED context

\* printOperations(context, type, fields), up to its loop
CallPrintOperations(type, fields) ==
  /\ pc = "idle"
  /\ call' = [fn |-> "printOperations", type |-> type, fields |-> fields]
  /\ LET e == EnterOperations(context, type, fields)
     IN IF e.kind = "return"
        THEN Finish(e.val)
        ELSE /\ stack' = <<e.val>>
             /\ pc' = "running"
             /\ result' = Pending
  /\ UNCHANGED context

Top == stack[Len(stack)]
Below == SubSeq(stack, 1, Len(stack) - 1)
Advance(frame, val) ==
  [frame EXCEPT !.i = @ + 1, !.fieldOperations = Append(@, val)]

\* One turn of the loop whose child field is passed over (line 154).
SkipNestedField ==
  /\ pc = "running"
  /\ Top.i <= Len(ChildFields(context, Top.fields))
  /\ SkipsNested(context, Top.fields, ChildFields(context, Top.fields)[Top.i])
  /\ stack' = Below \o <<Advance(Top, Undefined)>>
  /\ UNCHANGED <<context, call, pc, result>>

\* One turn of the loop that calls printOperations for the longer path
\* (line 157).
NestField ==
  /\ pc = "running"
  /\ Top.i <= Len(ChildFields(context, Top.fields))
  /\ ~SkipsNested(context, Top.fields, ChildFields(context, Top.fields)[Top.i])
  /\ LET fields == Top.fields \o <<ChildFields(context, Top.fields)[Top.i]>>
         e == EnterOperations(context, call.type, fields)
     IN /\ call' = [call EXCEPT !.fields = fields]
        /\ IF e.kind = "frame"
           THEN /\ stack' = stack \o <<e.val>>
                /\ UNCHANGED <<pc, result>>
           ELSE IF e.val = RangeError
           THEN Finish(RangeError)
           ELSE /\ stack' = Below \o <<Advance(Top, e.val)>>
                /\ UNCHANGED <<pc, result>>
  /\ UNCHANGED context

\* The loop is over: the call returns to its caller (line 162).
ReturnOperations ==
  /\ pc = "running"
  /\ Top.i > Len(ChildFields(context, Top.fields))
  /\ IF Len(stack) = 1
     THEN Finish(FrameValue(Top))
     ELSE /\ stack' = SubSeq(stack, 1, Len(stack) - 2)
                        \o <<Advance(stack[Len(stack) - 1], FrameValue(Top))>>
          /\ UNCHANGED <<pc, result>>
  /\ UNCHANGED <<context, call>>

Next ==
  \/ \E fields \in RootPaths : CallPrintOperationBody(fields)
  \/ \E type \in OperationTypes, fields \in RootPaths :
       CallPrintFieldOperation(type, fields)
  \/ \E type \in OperationTypes, fields \in RootPaths :
       CallPrintOperations(type, fields)
  \/ SkipNestedField
  \/ NestField
  \/ ReturnOperations

Spec == Init /\ [][Next]_vars

(* ------------------------------------------- isValidField on its own *)

DirectiveNames == {"internal", "deprecated"}

DirectiveLists ==
  UNION {[1..n -> DirectiveNames] : n \in 0..MaxDirectives}

FieldConfigs ==
  [ skipFields : {Absent} \cup {Some(S) : S \in SUBSET {"a", "b"}},
    skipDirectives : {Absent} \cup {Some(S) : S \in SUBSET DirectiveNames} ]

FieldContexts ==
  [ config : FieldConfigs,
    objects : {[n \in ObjectNames |-> <<>>]},
    fragments : {{}},
    scalars : {ScalarNames},
    queries : {{}} ]

\* The optional field argument of isValidField.
FieldArgs ==
  {Absent} \cup
  {Some(Field(n, NamedType("A"), d)) :
     n \in {"a", "b", "edges"},
     d \in {Absent} \cup {Some(ds) : ds \in DirectiveLists}}

InitField ==
  /\ context \in FieldContexts
  /\ call = NoCall
  /\ stack = <<>>
  /\ pc = "idle"
  /\ result = Pending

\* isValidField(context, field)
CallIsValidField(field) ==
  /\ pc = "idle"
  /\ call' = [fn |-> "isValidField", type |-> "", fields |-> field]
  /\ Finish(Bool(isValidField(context, field)))
  /\ UNCHANGED context

NextField == \E field \in FieldArgs : CallIsValidField(field)

SpecField == InitField /\ [][NextField]_vars

(* --------------------------------------------------------------- claims *)

LastValid == isValidField(context, getLast(call.fields))
LastField == call.fields[Len(call.fields)]

\* C1: printOperations terminates for every finite context, schemas with
\* cyclic object types included: no call of printOperations ends in a
\* recursion that never returns.
C1_OperationsTerminate ==
  call.fn = "printOperations" => pc # "threw"

\* C2: printOperationBody terminates for every finite context, also when
\* object types without fragments reference each other cyclically: no call
\* of printOperationBody ends in a recursion that never returns.
C2_BodyTerminates ==
  call.fn = "printOperationBody" => pc # "threw"

\* C3: isValidField returns true exactly when the field is defined, is not
\* named "edges", is not named in config.skipFields and has no directive
\* named in config.skipDirectives; an absent skipFields or skipDirectives
\* skips nothing.
C3_IsValidField ==
  call.fn = "isValidField" =>
    LET cfg == context.config
        field == call.fields
    IN (result = Bool(TRUE)) <=>
         /\ field # Absent
         /\ field[1].name # "edges"
         /\ cfg.skipFields = Absent \/ field[1].name \notin cfg.skipFields[1]
         /\ \/ cfg.skipDirectives = Absent
            \/ field[1].directives = Absent
            \/ \A i \in 1..Len(field[1].directives[1]) :
                 field[1].directives[1][i] \notin cfg.skipDirectives[1]

\* C3 witness: a field with directives is judged valid under a config that
\* lists skipFields and skipDirectives.
C3_Witness ==
  /\ call.fn = "isValidField"
  /\ result = Bool(TRUE)
  /\ context.config.skipFields # Absent /\ context.config.skipFields[1] # {}
  /\ context.config.skipDirectives # Absent /\ context.config.skipDirectives[1] # {}
  /\ call.fields[1].directives # Absent /\ call.fields[1].directives[1] # <<>>

\* C4: mutations are never nested: a printOperations call for a mutation
\* returns exactly printFieldOperation's result for its path, and no call
\* for a longer path is made.
C4_MutationsNotNested ==
  call.fn = "printOperations" /\ call.type = OperationMutation =>
    /\ stack = <<>>
    /\ call.fields \in RootPaths
    /\ pc \in {"done", "threw"}
    /\ result = printFieldOperation(context, OperationMutation, call.fields)

\* C4 witness: a mutation is printed for a field whose object has a child
\* field that a query would nest.
C4_Witness ==
  /\ call.fn = "printOperations" /\ call.type = OperationMutation
  /\ pc = "done" /\ Truthy(result)
  /\ \E i \in 1..Len(ChildFields(context, call.fields)) :
       /\ ~SkipsNested(context, call.fields, ChildFields(context, call.fields)[i])
       /\ isValidField(context, Some(ChildFields(context, call.fields)[i]))

\* C5: a fragment takes priority over the object: when the last field is
\* valid and has a fragment, printOperationBody returns exactly the
\* fragment spread, whatever the matching object holds.
C5_FragmentFirst ==
  call.fn = "printOperationBody" /\ LastValid
    /\ findFragment(context.fragments, LastField) # Absent =>
      /\ pc = "done"
      /\ result = Str(<<"...", getTypeName(LastField.type)>>)

\* C5 witness: the spread is returned for a field whose type has a fragment
\* and also an object with a valid field.
C5_Witness ==
  /\ call.fn = "printOperationBody" /\ pc = "done" /\ LastValid
  /\ findFragment(context.fragments, LastField) # Absent
  /\ \E i \in 1..Len(ChildFields(context, call.fields)) :
       isValidField(context, Some(ChildFields(context, call.fields)[i]))

\* The type names of the schema's fields, the root field included.
FieldTypeNames ==
  {getTypeName(call.fields[i].type) : i \in 1..Len(call.fields)}
    \cup UNION {{getTypeName(context.objects[n][i].type) :
                   i \in 1..Len(context.objects[n])} : n \in ObjectNames}

PathInvariant(fields) ==
  /\ \A i, j \in 1..Len(fields) :
       i # j => getTypeName(fields[i].type) # getTypeName(fields[j].type)
  /\ \A i \in 2..Len(fields) :
       /\ ~isScalarField(context.scalars, fields[i])
       /\ fields[i].name \notin {"pageInfo", "nodes"}
       /\ findQuery(context.queries, fields[i]) = Absent
  /\ Len(fields) <= Cardinality(FieldTypeNames)

\* C6: every path printOperations is called with, from a single root field
\* on, has pairwise distinct type names, and its fields after the first are
\* not scalar, not named "pageInfo" or "nodes" and not root queries; so the
\* path is no longer than the number of type names of the schema.
C6_PathInvariant ==
  call.fn = "printOperations" =>
    /\ PathInvariant(call.fields)
    /\ \A k \in 1..Len(stack) : PathInvariant(stack[k].fields)

\* C6 witness: a nested call is running and its loop has passed over a
\* child field only because the child returns the type of a parent field.
C6_Witness ==
  /\ pc = "running" /\ Len(stack) >= 2 /\ Top.i > 1
  /\ LET child == ChildFields(context, Top.fields)[Top.i - 1]
     IN /\ ~isScalarField(context.scalars, child)
        /\ child.name \notin {"pageInfo", "nodes"}
        /\ findQuery(context.queries, child) = Absent
        /\ getTypeName(child.type) = getTypeName(Top.fields[1].type)
        /\ isValidField(context, Some(child))

\* The last field's type has neither a fragment nor an object with a
\* printable field.
NothingToPrint ==
  /\ findFragment(context.fragments, LastField) = Absent
  /\ \A i \in 1..Len(ChildFields(context, call.fields)) :
       ~isValidField(context, Some(ChildFields(context, call.fields)[i]))

\* C7: an operation is emitted only for a valid last field with a non-empty
\* body: printOperations returns undefined for an empty path or an invalid
\* last field (at the top and for a nested child field); a nested call's
\* own operation is undefined or non-empty; printOperationBody is undefined
\* or "", and
\* printFieldOperation undefined, exactly when the last field is invalid or
\* its type has neither a fragment nor an object with a printable field.
C7_EmittedOnlyWithBody ==
  /\ call.fn = "printOperations" /\ Len(call.fields) <= 1 /\ ~LastValid =>
       pc = "done" /\ result = Undefined
  /\ call.fn = "printOperationBody" =>
       ((result = Undefined \/ result = Str(<<>>)) <=> (~LastValid \/ NothingToPrint))
  /\ call.fn = "printFieldOperation" =>
       (result = Undefined <=> (~LastValid \/ NothingToPrint))
  /\ call.fn = "printOperations" =>
       \A k \in 1..Len(stack) :
         /\ Truthy(stack[k].nodeOperation) \/ stack[k].nodeOperation = Undefined
         /\ \A j \in 1..Len(stack[k].fieldOperations) :
              ~isValidField(context, Some(ChildFields(context, stack[k].fields)[j]))
                => stack[k].fieldOperations[j] = Undefined

\* C7 witness: printFieldOperation returns undefined for a valid field
\* whose object has fields, none of them printable.
C7_Witness ==
  /\ call.fn = "printFieldOperation" /\ pc = "done" /\ result = Undefined
  /\ LastValid
  /\ ChildFields(context, call.fields) # <<>>

====
